---- MODULE Spec2Model ----
(***************************************************************************)
(* The feedback-analysis application.  Client side:                        *)
(*   - the playback coordinator  (frontend/src/services/audioManager.ts)   *)
(*   - the SSE client            (frontend/src/services/sseService.ts)     *)
(*   - the dashboard feed        (frontend/src/hooks/use-dashboard.ts,     *)
(*                                frontend/src/contexts/FeedbackContext.tsx,*)
(*                                frontend/src/components/Dashboard.tsx)   *)
(* Backend, modelled from the specification:                               *)
(*   - the pipeline orchestrator, the store and the event broadcast hub    *)
(* Each component has its own next-state relation and specification; the   *)
(* variables of the other components stay at their initial values.         *)
(***************************************************************************)
EXTENDS Integers, Sequences, FiniteSets, TLC

VARIABLES
    \* ---- playback coordinator (AudioManager) ----
    handles,            \* the HTMLAudioElements the manager created
    currentAudio,       \* AudioManager.currentAudio (0 is null)
    currentFeedbackId,  \* AudioManager.currentFeedbackId ("none" is null)
    audioPreloadCache,  \* AudioManager.audioPreloadCache: url -> handle (0: no entry)
    listeners,          \* AudioManager.listeners
    lastSnap,           \* the last AudioState each listener callback received
    prevPlaying,        \* history: what isPlaying() held when playAudio was last called
    aLast,              \* history: the last coordinator step
    \* ---- SSE client (SSEService) ----
    eventSource,        \* SSEService.eventSource: "none" (null) or its readyState
    isConnected,        \* SSEService.isConnected
    reconnectAttempts,  \* SSEService.reconnectAttempts
    eventHandlers,      \* SSEService.eventHandlers
    watchdogTimerId,    \* SSEService.watchdogTimerId: 0 (null) or 1 (an interval runs)
    watchdogIn,         \* ms until the interval's next callback
    sinceLastEvent,     \* Date.now() - SSEService.lastEventAt, capped above the threshold
    reconnectTimers,    \* the setTimeout callbacks of handleReconnect: ms until each runs
    removedHandlers,    \* history: handlers whose remove function was called last
    liveSources,        \* history: EventSource objects created and not closed
    liveIntervals,      \* history: setInterval timers set and not cleared
    registered,         \* history: handlers added and not removed since
    carried,            \* history: of these, the ones the last disconnect() found
    failures,           \* history: error events in a row with no contact in between
    sLast,              \* history: the last step of the SSE client
    \* ---- dashboard feed (useDashboard, FeedbackProvider) and its server ----
    items,              \* server: the stored snapshot of each feedback (0: none)
    events,             \* the feedback_update events published and not yet handled
    fetches,            \* the page fetches in flight, in the order of their requests
    feedback,           \* useDashboard: feedback
    currentPage,        \* useDashboard: currentPage
    pagination,         \* useDashboard: pagination
    feedbackLoading,    \* useDashboard: feedbackLoading
    feedbackError,      \* useDashboard: feedbackError is not null
    latestFeedback,     \* FeedbackProvider: latestFeedback
    refreshTrigger,     \* FeedbackProvider: refreshTrigger
    prevRefreshTriggerRef,      \* useDashboard: prevRefreshTriggerRef.current (-1: null)
    prevLatestFeedbackIdRef,    \* useDashboard: prevLatestFeedbackIdRef.current (0: null)
    effectDue,          \* a render changed a dependency of the effect
    pollTimer,          \* the page the pending poll timer will load (0: no timer)
    observed,           \* history: the snapshot of each id the client received last
    prepended,          \* history: ids a push merge put in front since the last response
    fLast,              \* history: the last step of the feed
    \* ---- backend: pipeline orchestrator, persistence and broadcast hub ----
    store,              \* persistence: the committed record of each feedback
    work,               \* orchestrator: the record each pipeline holds in memory
    pc,                 \* orchestrator: where each feedback's pipeline stands
    invoked,            \* history: the collaborators each pipeline called
    faults,             \* history: the collaborators that failed in each pipeline
    emitted,            \* history: the snapshot of each feedback's last feedback_update
    registry,           \* hub: the registered channels
    inbox,              \* the kind and number of the events each channel delivered
    seen,               \* the latest snapshot of each feedback a channel delivered
    published,          \* history: how many events were handed to the hub
    subscribedAt,       \* history: how many events were published when a live channel subscribed
    heartbeats,         \* history: heartbeat rounds so far
    bLast               \* history: the last step of the backend

audioVars == <<handles, currentAudio, currentFeedbackId, audioPreloadCache,
               listeners, lastSnap, prevPlaying, aLast>>

sseVars == <<eventSource, isConnected, reconnectAttempts, eventHandlers,
             watchdogTimerId, watchdogIn, sinceLastEvent, reconnectTimers,
             removedHandlers, liveSources, liveIntervals, registered, carried,
             failures, sLast>>

feedVars == <<items, events, fetches, feedback, currentPage, pagination,
              feedbackLoading, feedbackError, latestFeedback, refreshTrigger,
              prevRefreshTriggerRef, prevLatestFeedbackIdRef, effectDue, pollTimer,
              observed, prepended, fLast>>

backVars == <<store, work, pc, invoked, faults, emitted, registry, inbox, seen, published,
              subscribedAt, heartbeats, bLast>>

vars == <<audioVars, sseVars, feedVars, backVars>>

(***************************************************************************)
(*                         PLAYBACK COORDINATOR                            *)
(***************************************************************************)

\* Bounds of the model.
MaxHandles == 2

FeedbackIds == {"A", "B"}
NoId == "none"
NoUrl == ""
Listeners == {"l1", "l2"}
Handles == 1..MaxHandles
Kinds == {"play", "resume"}     \* which await a pending play() promise feeds

\* feedbackAPI.getAudioUrl: one locator per feedback's audio file.
getAudioUrl(id) == IF id = "A" THEN "urlA" ELSE "urlB"
Urls == {getAudioUrl(id) : id \in FeedbackIds}

\* An element that does not exist (never created, or garbage).
NoHandle ==
    [live |-> FALSE, src |-> NoUrl, paused |-> TRUE, pos |-> 0, err |-> FALSE,
     on |-> "none", pend |-> {}, abort |-> {}, ev |-> {}]

\* new Audio(): paused, at position 0, no handlers.
NewAudio(url, on) ==
    [live |-> TRUE, src |-> url, paused |-> TRUE, pos |-> 0, err |-> FALSE,
     on |-> on, pend |-> {}, abort |-> {}, ev |-> {}]

\* The coordinator's fields as one value, so that a handler's statements compose.
AS ==
    [h |-> handles, cur |-> currentAudio, fid |-> currentFeedbackId,
     cache |-> audioPreloadCache, lst |-> listeners, snap |-> lastSnap]

SetAS(s) ==
    /\ handles' = s.h
    /\ currentAudio' = s.cur
    /\ currentFeedbackId' = s.fid
    /\ audioPreloadCache' = s.cache
    /\ listeners' = s.lst
    /\ lastSnap' = s.snap

\* What a callback that is not subscribed holds.
NoSnap == [feedbackId |-> NoId, isPlaying |-> FALSE]

isCurrentlyPlaying(s) == s.cur # 0 /\ ~s.h[s.cur].paused

getCurrentState(s) == [feedbackId |-> s.fid, isPlaying |-> isCurrentlyPlaying(s)]

isPlaying(s, id) == s.fid = id /\ isCurrentlyPlaying(s)

notify(s) ==
    [s EXCEPT !.snap = [l \in Listeners |->
                          IF l \in s.lst THEN getCurrentState(s) ELSE s.snap[l]]]

\* HTMLMediaElement.pause(): a playing element becomes paused at once; its 'pause'
\* event and the rejection of its pending play() promises are queued as one task.
elPause(s, x) ==
    IF s.h[x].paused THEN s
    ELSE [s EXCEPT !.h[x] = [@ EXCEPT !.paused = TRUE,
                                      !.abort = s.h[x].abort \cup s.h[x].pend,
                                      !.pend = {},
                                      !.ev = s.h[x].ev \cup {"pause"}]]

elRewindNot(s, x) == s

\* element.currentTime = 0
elRewind(s, x) == [s EXCEPT !.h[x].pos = 0]

\* element.src = ""; element.load(): the element is emptied, the tasks queued for
\* it are dropped, and the failed resource selection queues an 'error' event.
elEmpty(s, x) ==
    [s EXCEPT !.h[x] = [@ EXCEPT !.paused = TRUE, !.src = NoUrl, !.pos = 0,
                                 !.pend = {}, !.abort = {}, !.ev = {"error"}]]

\* element.src = url on an element whose src differs: the load algorithm restarts.
elReload(s, x, url) ==
    [s EXCEPT !.h[x] = [@ EXCEPT !.paused = TRUE, !.src = url, !.pos = 0,
                                 !.err = FALSE, !.pend = {}, !.abort = {}, !.ev = {}]]

cacheEvict(s, x) ==
    [s EXCEPT !.cache = [u \in Urls |-> IF s.cache[u] = x THEN 0 ELSE s.cache[u]]]

\* AudioManager.cleanup.  The play() promises load() rejects settle as soon as the
\* running handler returns, when currentAudio is null: a flushed playAudio catch
\* does nothing more, a flushed resumeAudio catch notifies.
cleanup(s) ==
    IF s.cur # 0
    THEN LET x == s.cur
             flushed == s.h[x].pend \cup s.h[x].abort
             s1 == [cacheEvict(elEmpty(elPause(s, x), x), x)
                      EXCEPT !.cur = 0, !.fid = NoId]
         IN  IF "resume" \in flushed THEN notify(s1) ELSE s1
    ELSE [s EXCEPT !.cur = 0, !.fid = NoId]

stopCurrentNoPause(s) ==
    IF s.cur # 0 THEN notify(elRewind(s, s.cur)) ELSE s

stopCurrent(s) ==
    IF s.cur # 0 THEN notify(elRewind(elPause(s, s.cur), s.cur)) ELSE s

\* The catch of the await a play() promise feeds: playAudio's catch runs cleanup()
\* and rethrows, resumeAudio's catch runs cleanup() and notify().
rejected(s, kind) ==
    IF kind = "play" THEN cleanup(s) ELSE notify(cleanup(s))

RECURSIVE rejectAll(_, _)
rejectAll(s, kinds) ==
    IF kinds = {} THEN s
    ELSE LET k == IF "play" \in kinds THEN "play" ELSE "resume"
         IN  rejectAll(rejected(s, k), kinds \ {k})

\* AudioManager.startPlayback: element.play().  An element whose error attribute is
\* set rejects at once, and the awaiting catch runs before any other task.
startPlayback(s, x, kind) ==
    IF s.h[x].err
    THEN rejected(s, kind)
    ELSE [s EXCEPT !.h[x] = [@ EXCEPT !.paused = FALSE,
                                      !.pend = s.h[x].pend \cup {kind}]]

setupAudioEventListeners(s, x) == [s EXCEPT !.h[x].on = "manager"]

\* audioPreloadCache.forEach(pause and rewind what is not paused)
RECURSIVE pauseCached(_, _)
pauseCached(s, urls) ==
    IF urls = {} THEN s
    ELSE LET u == CHOOSE v \in urls : TRUE
             x == s.cache[u]
             s1 == IF x # 0 /\ ~s.h[x].paused THEN elRewind(elPause(s, x), x) ELSE s
         IN  pauseCached(s1, urls \ {u})

FreeHandles == {x \in Handles : ~handles[x].live}
FreshHandle == CHOOSE x \in FreeHandles : \A y \in FreeHandles : x <= y

\* The synchronous part of playAudio, up to the await of startPlayback.
playAudioSync(s, feedbackId, audioUrl, fresh) ==
    LET s1 == pauseCached(s, Urls)
        s2 == stopCurrent(s1)
        hit == s2.cache[audioUrl]
        audio == IF hit = 0 THEN fresh ELSE hit
        s3 == IF hit = 0
              THEN [s2 EXCEPT !.h[fresh] = NewAudio(audioUrl, "none"),
                              !.cache[audioUrl] = fresh]
              ELSE IF s2.h[hit].src # audioUrl THEN elReload(s2, hit, audioUrl)
              ELSE s2
        s4 == [s3 EXCEPT !.cur = audio, !.fid = feedbackId]
        s5 == notify(setupAudioEventListeners(s4, audio))
    IN  startPlayback(s5, audio, "play")

\* The steps the history tells apart: an operation or handler that has run to its
\* end, with the element it ran for and the awaits that settled in it.
Finishing == {"pauseAudio", "stopAudio", "resolved", "onpause", "ended", "error"}
Step(op, x, kinds) ==
    IF op \in Finishing /\ (op = "onpause" => kinds # {})
    THEN [op |-> op, h |-> x, k |-> kinds]
    ELSE [op |-> "other", h |-> 0, k |-> {}]
NoPrev == [id |-> NoId, h |-> 0, req |-> NoId]

\* History: the step just taken; and, while the await of the last playAudio is
\* pending or has just resolved, what was playing when that playAudio was called.
Hist(op, x, kinds, prev) ==
    /\ UNCHANGED <<sseVars, feedVars, backVars>>
    /\ aLast' = Step(op, x, kinds)
    /\ prevPlaying' =
         IF \/ \E y \in Handles : "play" \in handles'[y].pend
            \/ op = "resolved" /\ "play" \in kinds
         THEN prev ELSE NoPrev

PlayAudio(id) ==
    /\ audioPreloadCache[getAudioUrl(id)] = 0 => FreeHandles # {}
    /\ LET fresh == IF FreeHandles = {} THEN 0 ELSE FreshHandle
       IN  SetAS(playAudioSync(AS, id, getAudioUrl(id), fresh))
    /\ Hist("playAudio", currentAudio', {},
            IF isCurrentlyPlaying(AS)
            THEN [id |-> currentFeedbackId, h |-> currentAudio, req |-> id]
            ELSE [NoPrev EXCEPT !.req = id])

PauseAudio(id) ==
    /\ currentFeedbackId = id /\ currentAudio # 0
    /\ SetAS(notify(elPause(AS, currentAudio)))
    /\ Hist("pauseAudio", currentAudio, {}, prevPlaying)

ResumeAudio(id) ==
    /\ currentFeedbackId = id /\ currentAudio # 0
    /\ SetAS(startPlayback(AS, currentAudio, "resume"))
    /\ Hist("resumeAudio", currentAudio, {}, prevPlaying)

StopAudio(id) ==
    /\ currentFeedbackId = id
    /\ SetAS(notify(stopCurrent(AS)))
    /\ Hist("stopAudio", currentAudio, {}, prevPlaying)

Subscribe(l) ==
    /\ l \notin listeners
    /\ listeners' = listeners \cup {l}
    /\ lastSnap' = [lastSnap EXCEPT ![l] = getCurrentState(AS)]
    /\ UNCHANGED <<handles, currentAudio, currentFeedbackId, audioPreloadCache>>
    /\ Hist("subscribe", 0, {}, prevPlaying)

Unsubscribe(l) ==
    /\ l \in listeners
    /\ listeners' = listeners \ {l}
    /\ lastSnap' = [lastSnap EXCEPT ![l] = NoSnap]
    /\ UNCHANGED <<handles, currentAudio, currentFeedbackId, audioPreloadCache>>
    /\ Hist("unsubscribe", 0, {}, prevPlaying)

\* ---- what the browser does to the elements ----

\* onplay of an element play() was called on: notify().
PlayEvent(x) ==
    /\ handles[x].live /\ ~handles[x].paused /\ handles[x].on = "manager"
    /\ SetAS(notify(AS))
    /\ Hist("onplay", x, {}, prevPlaying)

\* The task pause() queued: 'pause' reaches onpause, then the play() promises that
\* were pending at the pause reject, and the awaits they feed run their catch.
PauseTask(x) ==
    /\ "pause" \in handles[x].ev
    /\ LET s0 == [AS EXCEPT !.h[x].ev = @ \ {"pause"}, !.h[x].abort = {}]
           s1 == IF handles[x].on = "manager" THEN notify(s0) ELSE s0
       IN  SetAS(rejectAll(s1, handles[x].abort))
    /\ Hist("onpause", x, handles[x].abort, prevPlaying)

\* Playback starts: the pending play() promises resolve; playAudio continues after
\* its await with notify(), resumeAudio's then() runs notify().
PlayResolved(x) ==
    /\ handles[x].live /\ handles[x].pend # {}
    /\ ~handles[x].paused /\ ~handles[x].err /\ handles[x].src # NoUrl
    /\ SetAS(notify([AS EXCEPT !.h[x].pend = {}]))
    /\ Hist("resolved", x, handles[x].pend, prevPlaying)

\* ontimeupdate of a playing element; pass: more than 1000 ms since the last one.
TimeUpdate(x, pass) ==
    /\ handles[x].live /\ ~handles[x].paused /\ handles[x].pend = {}
    /\ handles[x].on = "manager"
    /\ LET s0 == [AS EXCEPT !.h[x].pos = 1]
       IN  SetAS(IF pass THEN notify(s0) ELSE s0)
    /\ Hist("ontimeupdate", x, {}, prevPlaying)

\* Playback reaches the end: the element pauses itself, 'pause' then 'ended' fire.
Ended(x) ==
    /\ handles[x].live /\ ~handles[x].paused /\ handles[x].pend = {}
    /\ ~handles[x].err /\ handles[x].src # NoUrl /\ handles[x].on = "manager"
    /\ LET s0 == notify([AS EXCEPT !.h[x].paused = TRUE, !.h[x].pos = 1])
       IN  SetAS(notify(cleanup(s0)))
    /\ Hist("ended", x, {}, prevPlaying)

\* The resource of an element fails (network, decoding): 'error' fires, then the
\* play() promises still pending on the element reject.
ErrorEvent(x) ==
    /\ handles[x].live /\ handles[x].src # NoUrl /\ ~handles[x].err
    /\ LET s0 == [AS EXCEPT !.h[x].err = TRUE]
       IN  CASE handles[x].on = "manager" ->
                  LET s1 == notify(cleanup(s0))
                      left == s1.h[x].pend
                  IN  SetAS(rejectAll([s1 EXCEPT !.h[x].pend = {}], left))
             [] handles[x].on = "preloading" ->
                  SetAS([s0 EXCEPT !.h[x] = NoHandle])
             [] OTHER -> SetAS(s0)
    /\ Hist(IF handles[x].on = "manager" THEN "error" ELSE "preloadError", x, {}, prevPlaying)

\* The 'error' event an emptied element (src = "", load()) queued; the element is
\* referenced by nothing afterwards.
EmptyErrorEvent(x) ==
    /\ "error" \in handles[x].ev
    /\ LET s0 == [AS EXCEPT !.h[x].err = TRUE, !.h[x].ev = {}]
           s1 == IF handles[x].on = "manager" THEN notify(cleanup(s0)) ELSE s0
       IN  SetAS([s1 EXCEPT !.h[x] = NoHandle])
    /\ Hist("error", x, {}, prevPlaying)

\* AudioManager.preloadAudio up to the promise it returns.
PreloadAudio(url) ==
    /\ audioPreloadCache[url] = 0
    /\ FreeHandles # {}
    /\ handles' = [handles EXCEPT ![FreshHandle] = NewAudio(url, "preloading")]
    /\ UNCHANGED <<currentAudio, currentFeedbackId, audioPreloadCache, listeners,
                   lastSnap>>
    /\ Hist("preloadAudio", FreshHandle, {}, prevPlaying)

\* onloadedmetadata of a preloading element: it enters the cache under its url.
LoadedMetadata(x) ==
    /\ handles[x].live /\ handles[x].on = "preloading" /\ ~handles[x].err
    /\ handles' = [handles EXCEPT ![x].on = "preloaded"]
    /\ audioPreloadCache' = [audioPreloadCache EXCEPT ![handles[x].src] = x]
    /\ UNCHANGED <<currentAudio, currentFeedbackId, listeners, lastSnap>>
    /\ Hist("onloadedmetadata", x, {}, prevPlaying)

\* An element nothing references any more is collected.
Collect(x) ==
    /\ handles[x].live /\ x # currentAudio
    /\ \A u \in Urls : audioPreloadCache[u] # x
    /\ handles[x].on # "preloading"
    /\ handles[x].pend = {} /\ handles[x].abort = {} /\ handles[x].ev = {}
    /\ handles' = [handles EXCEPT ![x] = NoHandle]
    /\ UNCHANGED <<currentAudio, currentFeedbackId, audioPreloadCache, listeners,
                   lastSnap>>
    /\ Hist("collect", x, {}, prevPlaying)

InitAudio ==
    /\ handles = [x \in Handles |-> NoHandle]
    /\ currentAudio = 0
    /\ currentFeedbackId = NoId
    /\ audioPreloadCache = [u \in Urls |-> 0]
    /\ listeners = {}
    /\ lastSnap = [l \in Listeners |-> NoSnap]
    /\ prevPlaying = NoPrev
    /\ aLast = Step("init", 0, {})

AudioStep ==
    \/ \E id \in FeedbackIds : PlayAudio(id)
    \/ \E id \in FeedbackIds : PauseAudio(id)
    \/ \E id \in FeedbackIds : ResumeAudio(id)
    \/ \E id \in FeedbackIds : StopAudio(id)
    \/ \E l \in Listeners : Subscribe(l)
    \/ \E l \in Listeners : Unsubscribe(l)
    \/ \E u \in Urls : PreloadAudio(u)
    \/ \E x \in Handles : LoadedMetadata(x)
    \/ \E x \in Handles : PlayEvent(x)
    \/ \E x \in Handles : PauseTask(x)
    \/ \E x \in Handles : PlayResolved(x)
    \/ \E x \in Handles, pass \in BOOLEAN : TimeUpdate(x, pass)
    \/ \E x \in Handles : Ended(x)
    \/ \E x \in Handles : ErrorEvent(x)
    \/ \E x \in Handles : EmptyErrorEvent(x)
    \/ \E x \in Handles : Collect(x)

(***************************************************************************)
(*                              SSE CLIENT                                 *)
(***************************************************************************)

\* Bounds of the model.
MaxFailures == 3        \* error events in a row that the environment produces
MaxTimers == 2          \* pending reconnect timers beyond which no error is produced

\* Constants of the program (milliseconds).
reconnectDelay == 1000
MaxReconnectDelay == 30000
WatchdogPeriod == 30000
StaleAfter == 60000

\* A span of time shorter than the watchdog period, so that a message can
\* arrive between two watchdog callbacks.
Quantum == WatchdogPeriod \div 3

EventTypes == {"connected", "heartbeat", "feedback_update"}
Handlers == {"h1", "h2"}

Min(a, b) == IF a <= b THEN a ELSE b

RECURSIVE Pow2(_)
Pow2(n) == IF n <= 0 THEN 1 ELSE 2 * Pow2(n - 1)

\* The service's fields as one value, so that a handler's statements compose.
SS ==
    [es |-> eventSource, conn |-> isConnected, att |-> reconnectAttempts,
     hs |-> eventHandlers, wd |-> watchdogTimerId, wdIn |-> watchdogIn,
     age |-> sinceLastEvent, tm |-> reconnectTimers, rm |-> removedHandlers,
     live |-> liveSources, ivs |-> liveIntervals, reg |-> registered,
     car |-> carried]

SetSS(s) ==
    /\ eventSource' = s.es
    /\ isConnected' = s.conn
    /\ reconnectAttempts' = s.att
    /\ eventHandlers' = s.hs
    /\ watchdogTimerId' = s.wd
    /\ watchdogIn' = s.wdIn
    /\ sinceLastEvent' = s.age
    /\ reconnectTimers' = s.tm
    /\ removedHandlers' = s.rm
    /\ liveSources' = s.live
    /\ liveIntervals' = s.ivs
    /\ registered' = s.reg
    /\ carried' = s.car
    /\ UNCHANGED <<audioVars, feedVars, backVars>>

\* The delay handleReconnect computes from the incremented attempt counter.
backoff(attempts) == Min(reconnectDelay * Pow2(attempts - 1), MaxReconnectDelay)

\* handleReconnect(): the timeout it sets is never cleared.  Two timeouts that
\* run at the same instant do the same as one (disconnect(); connect() twice).
handleReconnect(s) ==
    LET a == s.att + 1
    IN [s EXCEPT !.att = a, !.tm = s.tm \cup {backoff(a)}]

stopWatchdog(s) ==
    IF s.wd # 0 THEN [s EXCEPT !.wd = 0, !.wdIn = 0, !.ivs = s.ivs - 1] ELSE s

startWatchdog(s) ==
    IF s.wd # 0 THEN s
    ELSE [s EXCEPT !.wd = 1, !.wdIn = WatchdogPeriod, !.ivs = s.ivs + 1]

\* close() of an event source: one that the browser closed stays closed.
close(s) ==
    IF s.es \in {"connecting", "open"} THEN [s EXCEPT !.live = s.live - 1] ELSE s

disconnectForgetHandlers(s) ==
    stopWatchdog([close(s) EXCEPT !.es = "none", !.conn = FALSE, !.att = 0,
                                  !.hs = {}])

disconnect(s) ==
    stopWatchdog([close(s) EXCEPT !.es = "none", !.conn = FALSE, !.att = 0])

getConnectionStatus(s) == s.conn

connectUnguarded(s) == [s EXCEPT !.es = "connecting", !.live = s.live + 1]

\* connect(): new EventSource(url) with a well-formed url does not throw.
connect(s) ==
    IF s.conn \/ s.es # "none" THEN s
    ELSE [s EXCEPT !.es = "connecting", !.live = s.live + 1]

onopen(s) == startWatchdog([s EXCEPT !.conn = TRUE, !.att = 0, !.age = 0])

onmessageKeepAttempts(s, parsed) == IF parsed THEN [s EXCEPT !.age = 0] ELSE s

\* onmessage: JSON.parse throws before anything is assigned.
onmessage(s, parsed) == IF parsed THEN [s EXCEPT !.age = 0, !.att = 0] ELSE s

onerrorKeepConnected(s) == handleReconnect(s)

onerror(s) == handleReconnect([s EXCEPT !.conn = FALSE])

watchdogCheckOff(s) == s

\* The callback of the watchdog interval.
watchdogCheck(s) ==
    IF s.es # "none" /\ s.age > StaleAfter THEN handleReconnect(s) ELSE s

\* The callback of a reconnect timeout.
reconnectNow(s) == connect(disconnect(s))

RECURSIVE forEachNoCatch(_, _)
forEachNoCatch(hs, throwers) ==
    IF hs = {} THEN <<>>
    ELSE LET h == CHOOSE x \in hs : TRUE
         IN  IF h \in throwers THEN <<h>>
             ELSE <<h>> \o forEachNoCatch(hs \ {h}, throwers)

\* eventHandlers.forEach of onmessage: the calls it makes, in order, when the
\* handlers in throwers throw.  Each call is in its own try/catch, so the order
\* of the set has no effect on who is called.
RECURSIVE forEach(_, _)
forEach(hs, throwers) ==
    IF hs = {} THEN <<>>
    ELSE LET h == CHOOSE x \in hs : TRUE
         IN  <<h>> \o forEach(hs \ {h}, throwers)

\* History: the steps the claims speak about, with the delay an error scheduled,
\* the attempt counter a message found, and the type of the message.
SStep(op, v, t) ==
    IF op \in {"message", "error", "stale", "reconnect", "disconnect"}
    THEN [op |-> op, v |-> v, t |-> t, to |-> <<>>, thr |-> {}]
    ELSE [op |-> "other", v |-> 0, t |-> "none", to |-> <<>>, thr |-> {}]

Connect ==
    /\ SetSS(connect(SS))
    /\ sLast' = SStep("connect", 0, "none")
    /\ UNCHANGED failures

Disconnect ==
    /\ SetSS([disconnect(SS) EXCEPT !.car = SS.reg])
    /\ sLast' = SStep("disconnect", 0, "none")
    /\ failures' = 0

AddEventListener(h) ==
    /\ h \notin eventHandlers
    /\ SetSS([SS EXCEPT !.hs = SS.hs \cup {h}, !.rm = SS.rm \ {h},
                        !.reg = SS.reg \cup {h}])
    /\ sLast' = SStep("addEventListener", 0, "none")
    /\ UNCHANGED failures

RemoveEventListener(h) ==
    /\ h \in eventHandlers
    /\ SetSS([SS EXCEPT !.hs = SS.hs \ {h}, !.rm = SS.rm \cup {h},
                        !.reg = SS.reg \ {h}, !.car = SS.car \ {h}])
    /\ sLast' = SStep("removeEventListener", 0, "none")
    /\ UNCHANGED failures

\* The browser opened the stream.
EsOpen ==
    /\ eventSource = "connecting"
    /\ SetSS(onopen([SS EXCEPT !.es = "open"]))
    /\ sLast' = SStep("open", 0, "none")
    /\ failures' = 0

\* The browser delivers a message of the stream; it may fail to parse.
EsMessage(type, parsed, throwers) ==
    /\ eventSource = "open"
    /\ throwers \subseteq eventHandlers
    /\ parsed \/ throwers = {}
    /\ SetSS(onmessage(SS, parsed))
    /\ sLast' = IF parsed
                THEN [SStep("message", reconnectAttempts, type)
                        EXCEPT !.to = forEach(eventHandlers, throwers),
                               !.thr = throwers]
                ELSE SStep("parseError", 0, type)
    /\ failures' = IF parsed THEN 0 ELSE failures

\* The connection failed: the browser retries by itself (readyState CONNECTING)
\* or gives up (readyState CLOSED); either way onerror runs.
EsError(fatal) ==
    /\ eventSource \in {"connecting", "open"}
    /\ failures < MaxFailures
    /\ Cardinality(reconnectTimers) < MaxTimers
    /\ SetSS(onerror([SS EXCEPT !.es = IF fatal THEN "closed" ELSE "connecting",
                                !.live = IF fatal THEN SS.live - 1 ELSE SS.live]))
    /\ sLast' = SStep("error", backoff(reconnectAttempts + 1), "none")
    /\ failures' = failures + 1

Deadlines == reconnectTimers \cup (IF watchdogTimerId # 0 THEN {watchdogIn} ELSE {})
NextDeadline == CHOOSE d \in Deadlines : \A e \in Deadlines : d <= e
Spans == IF Deadlines = {} THEN {} ELSE {Quantum, NextDeadline}

\* Time passes, up to the next timer that is to run.
Advance(d) ==
    /\ d \in Spans
    /\ d > 0 /\ d <= NextDeadline
    /\ SetSS([SS EXCEPT !.wdIn = IF SS.wd # 0 THEN SS.wdIn - d ELSE 0,
                        !.age = Min(SS.age + d, StaleAfter + 1),
                        !.tm = {t - d : t \in SS.tm}])
    /\ sLast' = SStep("advance", 0, "none")
    /\ UNCHANGED failures

WatchdogTick ==
    /\ watchdogTimerId # 0 /\ watchdogIn = 0
    /\ SetSS(watchdogCheck([SS EXCEPT !.wdIn = WatchdogPeriod]))
    /\ sLast' = SStep(IF sinceLastEvent > StaleAfter THEN "stale" ELSE "tick",
                      0, "none")
    /\ UNCHANGED failures

ReconnectTimerFire ==
    /\ 0 \in reconnectTimers
    /\ SetSS([reconnectNow([SS EXCEPT !.tm = SS.tm \ {0}]) EXCEPT !.car = SS.reg])
    /\ sLast' = SStep("reconnect", IF eventSource = "open" /\ isConnected
                                       /\ sinceLastEvent > StaleAfter
                                    THEN 1 ELSE 0, "none")
    /\ UNCHANGED failures

InitSSE ==
    /\ eventSource = "none"
    /\ isConnected = FALSE
    /\ reconnectAttempts = 0
    /\ eventHandlers = {}
    /\ watchdogTimerId = 0
    /\ watchdogIn = 0
    /\ sinceLastEvent = StaleAfter + 1
    /\ reconnectTimers = {}
    /\ removedHandlers = {}
    /\ liveSources = 0
    /\ liveIntervals = 0
    /\ registered = {}
    /\ carried = {}
    /\ failures = 0
    /\ sLast = SStep("init", 0, "none")

TimePasses ==
    \/ \E d \in Spans : Advance(d)
    \/ WatchdogTick
    \/ ReconnectTimerFire

SSEStep ==
    \/ Connect
    \/ Disconnect
    \/ \E h \in Handlers : AddEventListener(h)
    \/ \E h \in Handlers : RemoveEventListener(h)
    \/ EsOpen
    \/ \E type \in EventTypes, parsed \in BOOLEAN, throwers \in SUBSET Handlers :
          EsMessage(type, parsed, throwers)
    \/ \E fatal \in BOOLEAN : EsError(fatal)
    \/ TimePasses

(***************************************************************************)
(*                            DASHBOARD FEED                               *)
(* useDashboard with the FeedbackProvider that feeds it, and the server    *)
(* they talk to.  The statistics (loadDashboardStats, completedIdsRef)     *)
(* never touch the feed and are left out.                                  *)
(***************************************************************************)

\* Bounds of the model.
NumOld == 5             \* feedback that is completed before the page is opened
MaxNew == 1             \* feedback submitted while the page is open
MaxInFlight == 2        \* page fetches in flight at once
FinalVersion == 3       \* snapshots of one feedback that the pipeline persists: the
                        \* last is "completed", those before are "processing"

\* Constants of the program.
PageSize == 5


OldIds == 1..NumOld
NewIds == (NumOld + 1)..(NumOld + MaxNew)
AllIds == OldIds \cup NewIds
Pages == 1..2

Snapshot(id, v) == [id |-> id, v |-> v]
Snapshots == {Snapshot(id, v) : id \in AllIds, v \in 1..FinalVersion}
NoFeedback == Snapshot(0, 0)
NoPagination == [page |-> 0, total |-> 0]

processing_status(f) == IF f.v < FinalVersion THEN "processing" ELSE "completed"

\* The feed's state as one value, so that a handler's statements compose.
FS ==
    [feedback |-> feedback, page |-> currentPage, pag |-> pagination,
     loading |-> feedbackLoading, error |-> feedbackError,
     latest |-> latestFeedback, trig |-> refreshTrigger,
     prevTrig |-> prevRefreshTriggerRef, prevId |-> prevLatestFeedbackIdRef,
     due |-> effectDue, timer |-> pollTimer, fetches |-> fetches]

SetFS(s) ==
    /\ feedback' = s.feedback
    /\ currentPage' = s.page
    /\ pagination' = s.pag
    /\ feedbackLoading' = s.loading
    /\ feedbackError' = s.error
    /\ latestFeedback' = s.latest
    /\ refreshTrigger' = s.trig
    /\ prevRefreshTriggerRef' = s.prevTrig
    /\ prevLatestFeedbackIdRef' = s.prevId
    /\ effectDue' = s.due
    /\ pollTimer' = s.timer
    /\ fetches' = s.fetches
    /\ UNCHANGED <<audioVars, sseVars, backVars>>

\* ---- the server ----

RECURSIVE Newest(_)
Newest(ids) ==
    IF ids = {} THEN <<>>
    ELSE LET m == CHOOSE i \in ids : \A j \in ids : j <= i
         IN <<m>> \o Newest(ids \ {m})

Stored == {id \in AllIds : items[id] > 0}

\* GET /feedback?page=p&per_page=5: the stored feedback, newest first.
serverList == [k \in 1..Cardinality(Stored) |->
                 Snapshot(Newest(Stored)[k], items[Newest(Stored)[k]])]

serverPage(p) ==
    SubSeq(serverList, (p - 1) * PageSize + 1, Min(p * PageSize, Len(serverList)))

\* ---- the client ----

\* Array.findIndex, with positions counted from 1 and 0 for "not found".
findIndexNever(feed, id) == 0

findIndex(feed, id) ==
    IF \E k \in 1..Len(feed) : feed[k].id = id
    THEN CHOOSE k \in 1..Len(feed) :
            feed[k].id = id /\ \A j \in 1..(k - 1) : feed[j].id # id
    ELSE 0

pushMergePrepend(feed, f) == <<f>> \o feed

\* The updater the effect passes to setFeedback.
pushMerge(feed, f) ==
    IF findIndex(feed, f.id) > 0
    THEN [feed EXCEPT ![findIndex(feed, f.id)] = f]
    ELSE <<f>> \o feed

\* The updater Dashboard's handleSSEEvent passes to setFeedback.
mergeRecent(feed, f) ==
    IF findIndex(feed, f.id) > 0
    THEN [feed EXCEPT ![findIndex(feed, f.id)] = f]
    ELSE <<f>> \o SubSeq(feed, 1, Min(4, Len(feed)))

\* History of a page fetch: whether it is the reload a push triggered, whether
\* a fetch requested after it has been answered with success, and whether a
\* fetch has failed since it was requested.
NoRequest == [push |-> FALSE, stale |-> FALSE, failed |-> FALSE]

loadFeedbackKeepError(s, page) ==
    [s EXCEPT !.loading = TRUE, !.pag = NoPagination,
              !.fetches = Append(s.fetches,
                                 [page |-> page, served |-> FALSE,
                                  data |-> <<>>, total |-> 0,
                                  req |-> NoRequest])]

\* loadFeedback up to its await.
loadFeedback(s, page) ==
    [s EXCEPT !.loading = TRUE, !.error = FALSE, !.pag = NoPagination,
              !.fetches = Append(s.fetches,
                                 [page |-> page, served |-> FALSE,
                                  data |-> <<>>, total |-> 0,
                                  req |-> NoRequest])]

\* The fetch just requested is the reload that a push triggered.
requestedByPush(s, push) == [s EXCEPT !.fetches[Len(s.fetches)].req.push = push]

\* The fetches left in flight when the i-th is answered.
others(fs, i, success) ==
    [k \in 1..(Len(fs) - 1) |->
        IF k < i
        THEN [fs[k] EXCEPT !.req.stale = fs[k].req.stale \/ success,
                           !.req.failed = fs[k].req.failed \/ ~success]
        ELSE [fs[k + 1] EXCEPT !.req.failed = fs[k + 1].req.failed \/ ~success]]

\* loadFeedback after its await: a response with status "success" ...
loadSucceeded(s, f) ==
    [s EXCEPT !.feedback = f.data,
              !.pag = [page |-> f.page, total |-> f.total],
              !.page = f.page, !.loading = FALSE, !.due = TRUE]

\* ... and a rejected request or a response with another status.
loadFailed(s) == [s EXCEPT !.error = TRUE, !.loading = FALSE]

hasProcessingItems(feed) ==
    \E k \in 1..Len(feed) : processing_status(feed[k]) = "processing"

\* The refreshTrigger branch of the effect.
effectRefresh(s) ==
    IF s.trig # s.prevTrig
    THEN requestedByPush(loadFeedback([s EXCEPT !.prevTrig = s.trig], 1),
                         s.prevTrig # -1)
    ELSE s

\* The latestFeedback branch of the effect; setFeedback renders again.
effectMerge(s) ==
    IF s.latest # NoFeedback /\ s.latest.id # s.prevId
    THEN [s EXCEPT !.prevId = s.latest.id,
                   !.feedback = pushMerge(s.feedback, s.latest), !.due = TRUE]
    ELSE [s EXCEPT !.due = FALSE]

\* The poll timer of the effect: it reads the feedback and the currentPage of
\* the render the effect belongs to; the timer of the effect before is cleared.
effectPoll(s, feed, page) ==
    [s EXCEPT !.timer = IF hasProcessingItems(feed) THEN page ELSE 0]

effect(s) == effectPoll(effectMerge(effectRefresh(s)), s.feedback, s.page)

\* handleSSEEvent of the FeedbackProvider, for a feedback_update with data.
handleSSEEvent(s, f) ==
    [s EXCEPT !.latest = f, !.trig = s.trig + 1, !.due = TRUE]

\* History: the step just taken, for the steps the claims speak about.
FStep(op, id, found, pre) ==
    IF op \in {"merge", "response", "push", "failure"}
    THEN [op |-> op, id |-> id, found |-> found, pre |-> pre, req |-> NoRequest]
    ELSE [op |-> "other", id |-> 0, found |-> FALSE, pre |-> {},
          req |-> NoRequest]

\* ---- server steps ----

\* Submission: the feedback is stored with status "processing".
Submit(id) ==
    /\ id \in NewIds /\ items[id] = 0
    /\ \A j \in NewIds : j < id => items[j] > 0
    /\ items' = [items EXCEPT ![id] = 1]
    /\ fLast' = FStep("submit", 0, FALSE, {})
    /\ UNCHANGED <<events, observed, prepended>>
    /\ SetFS(FS)

\* A stage of the pipeline persists its result and publishes the snapshot.
Process(id) ==
    /\ id \in NewIds /\ items[id] > 0 /\ items[id] < FinalVersion
    /\ items' = [items EXCEPT ![id] = items[id] + 1]
    /\ events' = Append(events, Snapshot(id, items[id] + 1))
    /\ fLast' = FStep("process", 0, FALSE, {})
    /\ UNCHANGED <<observed, prepended>>
    /\ SetFS(FS)

\* The server answers a page fetch from what is stored at that moment.
Serve(i) ==
    /\ i \in 1..Len(fetches) /\ ~fetches[i].served
    /\ SetFS([FS EXCEPT !.fetches[i] =
                 [fetches[i] EXCEPT !.served = TRUE,
                                    !.data = serverPage(fetches[i].page),
                                    !.total = Len(serverList)]])
    /\ fLast' = FStep("serve", 0, FALSE, {})
    /\ UNCHANGED <<items, events, observed, prepended>>

\* ---- client steps ----

\* The response of a page fetch arrives, in any order.
Receive(i) ==
    /\ i \in 1..Len(fetches) /\ fetches[i].served
    /\ LET f == fetches[i]
           rest == others(fetches, i, TRUE)
       IN /\ SetFS(loadSucceeded([FS EXCEPT !.fetches = rest], f))
          /\ observed' = [id \in AllIds |->
                            IF findIndex(f.data, id) > 0
                            THEN f.data[findIndex(f.data, id)].v
                            ELSE observed[id]]
    /\ fLast' = [FStep("response", 0, FALSE, prepended)
                    EXCEPT !.req = fetches[i].req]
    /\ prepended' = {}
    /\ UNCHANGED <<items, events>>

\* A page fetch fails: the request is rejected or the status is not "success".
ReceiveFailure(i) ==
    /\ i \in 1..Len(fetches)
    /\ LET rest == others(fetches, i, FALSE)
       IN SetFS(loadFailed([FS EXCEPT !.fetches = rest]))
    /\ fLast' = FStep("failure", 0, FALSE, {})
    /\ UNCHANGED <<items, events, observed, prepended>>

\* The SSE service hands the next feedback_update to the provider's handler.
Deliver ==
    /\ events # <<>>
    /\ SetFS(handleSSEEvent(FS, Head(events)))
    /\ events' = Tail(events)
    /\ observed' = [observed EXCEPT ![Head(events).id] = Head(events).v]
    /\ fLast' = FStep("push", Head(events).id, FALSE, {})
    /\ UNCHANGED <<items, prepended>>

\* A feedback_update is published while no stream is open: it is lost.
Lose ==
    /\ events # <<>>
    /\ events' = Tail(events)
    /\ fLast' = FStep("lose", 0, FALSE, {})
    /\ UNCHANGED <<items, observed, prepended>>
    /\ SetFS(FS)

\* React runs the effect of useDashboard after a render that changed one of
\* refreshTrigger, latestFeedback, feedback, currentPage (and after mount).
RunEffect ==
    /\ effectDue
    /\ refreshTrigger # prevRefreshTriggerRef => Len(fetches) < MaxInFlight
    /\ SetFS(effect(FS))
    /\ LET merges == latestFeedback # NoFeedback
                     /\ latestFeedback.id # prevLatestFeedbackIdRef
           found == findIndex(feedback, latestFeedback.id) > 0
       IN /\ fLast' = FStep(IF merges THEN "merge" ELSE "effect",
                            latestFeedback.id, found, {})
          /\ prepended' = IF merges /\ ~found
                          THEN prepended \cup {latestFeedback.id}
                          ELSE prepended
    /\ UNCHANGED <<items, events, observed>>

\* The poll timer of the last effect runs.
PollTimerFire ==
    /\ pollTimer # 0
    /\ Len(fetches) < MaxInFlight
    /\ SetFS(loadFeedback([FS EXCEPT !.timer = 0], pollTimer))
    /\ fLast' = FStep("poll", 0, FALSE, {})
    /\ UNCHANGED <<items, events, observed, prepended>>

\* handlePageChange(page), reloadFeedback(page)
HandlePageChange(page) ==
    /\ Len(fetches) < MaxInFlight
    /\ SetFS(loadFeedback(FS, page))
    /\ fLast' = FStep("pageChange", 0, FALSE, {})
    /\ UNCHANGED <<items, events, observed, prepended>>

\* handleRefresh(), as far as the feed goes.
HandleRefresh ==
    /\ Len(fetches) < MaxInFlight
    /\ SetFS(loadFeedback(FS, currentPage))
    /\ fLast' = FStep("refresh", 0, FALSE, {})
    /\ UNCHANGED <<items, events, observed, prepended>>

InitFeed ==
    /\ items = [id \in AllIds |-> IF id \in OldIds THEN FinalVersion ELSE 0]
    /\ events = <<>>
    /\ fetches = <<>>
    /\ feedback = <<>>
    /\ currentPage = 1
    /\ pagination = NoPagination
    /\ feedbackLoading = FALSE
    /\ feedbackError = FALSE
    /\ latestFeedback = NoFeedback
    /\ refreshTrigger = 0
    /\ prevRefreshTriggerRef = -1
    /\ prevLatestFeedbackIdRef = 0
    /\ effectDue = TRUE
    /\ pollTimer = 0
    /\ observed = [id \in AllIds |-> 0]
    /\ prepended = {}
    /\ fLast = FStep("init", 0, FALSE, {})

FeedStep ==
    \/ \E id \in NewIds : Submit(id)
    \/ \E id \in NewIds : Process(id)
    \/ \E i \in 1..MaxInFlight : Serve(i)
    \/ \E i \in 1..MaxInFlight : Receive(i)
    \/ \E i \in 1..MaxInFlight : ReceiveFailure(i)
    \/ Deliver
    \/ Lose
    \/ RunEffect
    \/ PollTimerFire
    \/ \E page \in Pages : HandlePageChange(page)
    \/ HandleRefresh

(***************************************************************************)
(*        BACKEND: PIPELINE ORCHESTRATOR AND EVENT BROADCAST HUB           *)
(* The backend's code is not among the sources.  It is modelled from the   *)
(* specification (sections 3, 4.1, 4.2, 5 and 7) and from the processing   *)
(* lifecycle of the project documentation.                                 *)
(***************************************************************************)
MaxHeartbeats == 1

Submissions == {"f1", "f2"}
Channels == {"c1", "c2"}

\* A Feedback with its sub-results: sentiment is "none", "analyzer" or
\* "fallback" (where the SentimentResult came from); response and audio say
\* whether a GeneratedResponse and an AudioArtifact exist.
NoRecord ==
    [status |-> "none", sentiment |-> "none", response |-> FALSE, audio |-> FALSE]

NewRecord ==
    [status |-> "processing", sentiment |-> "none", response |-> FALSE, audio |-> FALSE]

\* n is not part of the event: it records the event's place in publish order.
DomainEvent(kind, id, data) == [kind |-> kind, id |-> id, data |-> data, n |-> 0]

connected == DomainEvent("connected", "none", NoRecord)

heartbeat == DomainEvent("heartbeat", "none", NoRecord)

feedback_update(id, rec) == DomainEvent("feedback_update", id, rec)

Stamp(ev, n) == [ev EXCEPT !.n = n]

\* ---- event broadcast hub ----
\* The hub's registry with what the channels' subscribers hold: inbox is the
\* kind and publish number of every event a channel delivered, in order;
\* seen is the latest Feedback snapshot of each id among them.
Hub == [registry |-> registry, inbox |-> inbox, seen |-> seen]

Arrival(ev) == [kind |-> ev.kind, n |-> ev.n]

Unseen == [f \in Submissions |-> NoRecord]

\* The subscriber's end of a channel that delivered ev.
receive(view, ev) ==
    IF ev.kind = "feedback_update" THEN [view EXCEPT ![ev.id] = ev.data] ELSE view

subscribeSilent(h, c) ==
    [registry |-> h.registry \cup {c},
     inbox |-> [h.inbox EXCEPT ![c] = <<>>],
     seen |-> [h.seen EXCEPT ![c] = Unseen]]

\* Subscribe() -> Channel: registers the channel and delivers connected.
subscribe(h, c) ==
    [registry |-> h.registry \cup {c},
     inbox |-> [h.inbox EXCEPT ![c] = <<Arrival(connected)>>],
     seen |-> [h.seen EXCEPT ![c] = Unseen]]

\* Unsubscribe(channel): the channel is destroyed.
unsubscribe(h, c) ==
    [registry |-> h.registry \ {c},
     inbox |-> [h.inbox EXCEPT ![c] = <<>>],
     seen |-> [h.seen EXCEPT ![c] = Unseen]]

\* One non-blocking send attempt: the event reaches the channel, or the
\* delivery fails and the channel is destroyed.
send(q, ev, fails) == IF fails THEN <<>> ELSE Append(q, Arrival(ev))

publishKeepFailed(h, ev, failing) ==
    [h EXCEPT !.inbox = [c \in Channels |->
        IF c \in h.registry \ failing THEN send(h.inbox[c], ev, FALSE) ELSE h.inbox[c]]]

\* Publish(event): one send attempt to every registered channel; a channel
\* whose delivery fails is unregistered at once, the others get the event.
publish(h, ev, failing) ==
    [registry |-> h.registry \ failing,
     inbox |-> [c \in Channels |->
        IF c \in h.registry THEN send(h.inbox[c], ev, c \in failing) ELSE h.inbox[c]],
     seen |-> [c \in Channels |->
        IF c \in h.registry \ failing THEN receive(h.seen[c], ev)
        ELSE IF c \in failing THEN Unseen ELSE h.seen[c]]]

\* ---- pipeline orchestrator ----
persistNot(stored, rec) == stored

\* The persistence collaborator commits the pipeline's record.
persist(stored, rec) == rec

\* The read side of the retrieval endpoint: the committed record.
retrieve(f) == store[f]

sentimentStageNoFallback(rec, ok) ==
    IF ok THEN [rec EXCEPT !.sentiment = "analyzer"] ELSE rec

\* Stage 1: the analyzer's result, or the local fallback heuristic's.
sentimentStage(rec, ok) ==
    [rec EXCEPT !.sentiment = IF ok THEN "analyzer" ELSE "fallback"]

responseStageSwallow(rec, ok) ==
    IF ok THEN [rec EXCEPT !.response = TRUE] ELSE rec

\* Stage 2: the generated response, or the transition to failed.
responseStage(rec, ok) ==
    IF ok THEN [rec EXCEPT !.response = TRUE] ELSE [rec EXCEPT !.status = "failed"]

afterResponseContinue(rec) == "emitResponse"

\* A failure of stage 2 aborts the remaining stages.
afterResponse(rec) ==
    IF rec.status = "failed" THEN "emitFinal" ELSE "emitResponse"

\* Stage 3: the audio artifact, or nothing when the synthesizer fails.
synthesisStage(rec, ok) ==
    IF ok THEN [rec EXCEPT !.audio = TRUE] ELSE rec

\* Stage 4.
markCompleted(rec) == [rec EXCEPT !.status = "completed"]

\* What follows the emission of a stage's event.
afterEmit(at) ==
    CASE at = "emitSentiment" -> "response"
      [] at = "emitResponse" -> "synthesis"
      [] at = "emitAudio" -> "final"
      [] at = "emitFinal" -> "done"

Emitting == {"emitSentiment", "emitResponse", "emitAudio", "emitFinal"}

\* The last step: for a round of the hub, the channels whose delivery failed.
BStep(op, failing) == [op |-> op, failing |-> failing]

HubUnchanged == UNCHANGED <<registry, inbox, seen, published, subscribedAt, heartbeats>>

PipelinesUnchanged == UNCHANGED <<store, work, pc, invoked, faults, emitted>>

OthersUnchanged == UNCHANGED <<audioVars, sseVars, feedVars>>

\* Submit(text, category): durable creation with status processing; the
\* enrichment runs out of band.
SubmitFeedback(f) ==
    /\ pc[f] = "new"
    /\ store' = [store EXCEPT ![f] = persist(@, NewRecord)]
    /\ work' = [work EXCEPT ![f] = NewRecord]
    /\ pc' = [pc EXCEPT ![f] = "sentiment"]
    /\ bLast' = BStep("stage", {})
    /\ UNCHANGED <<invoked, faults, emitted>>
    /\ HubUnchanged /\ OthersUnchanged

SentimentStage(f, ok) ==
    /\ pc[f] = "sentiment"
    /\ LET rec == sentimentStage(work[f], ok) IN
        /\ work' = [work EXCEPT ![f] = rec]
        /\ store' = [store EXCEPT ![f] = persist(@, rec)]
    /\ pc' = [pc EXCEPT ![f] = "emitSentiment"]
    /\ invoked' = [invoked EXCEPT ![f] = @ \cup {"sentiment"}]
    /\ faults' = [faults EXCEPT ![f] = IF ok THEN @ ELSE @ \cup {"sentiment"}]
    /\ bLast' = BStep("stage", {})
    /\ UNCHANGED emitted
    /\ HubUnchanged /\ OthersUnchanged

ResponseStage(f, ok) ==
    /\ pc[f] = "response"
    /\ LET rec == responseStage(work[f], ok) IN
        /\ work' = [work EXCEPT ![f] = rec]
        /\ store' = [store EXCEPT ![f] = persist(@, rec)]
        /\ pc' = [pc EXCEPT ![f] = afterResponse(rec)]
    /\ invoked' = [invoked EXCEPT ![f] = @ \cup {"response"}]
    /\ faults' = [faults EXCEPT ![f] = IF ok THEN @ ELSE @ \cup {"response"}]
    /\ bLast' = BStep("stage", {})
    /\ UNCHANGED emitted
    /\ HubUnchanged /\ OthersUnchanged

\* The synthesizer is called; its failure is logged and the pipeline goes
\* on to completion without an event of this stage.
SynthesisStage(f, ok) ==
    /\ pc[f] = "synthesis"
    /\ LET rec == synthesisStage(work[f], ok) IN
        /\ work' = [work EXCEPT ![f] = rec]
        /\ store' = [store EXCEPT ![f] = IF ok THEN persist(@, rec) ELSE @]
    /\ pc' = [pc EXCEPT ![f] = IF ok THEN "emitAudio" ELSE "final"]
    /\ invoked' = [invoked EXCEPT ![f] = @ \cup {"synthesis"}]
    /\ faults' = [faults EXCEPT ![f] = IF ok THEN @ ELSE @ \cup {"synthesis"}]
    /\ bLast' = BStep("stage", {})
    /\ UNCHANGED emitted
    /\ HubUnchanged /\ OthersUnchanged

MarkCompleted(f) ==
    /\ pc[f] = "final"
    /\ LET rec == markCompleted(work[f]) IN
        /\ work' = [work EXCEPT ![f] = rec]
        /\ store' = [store EXCEPT ![f] = persist(@, rec)]
    /\ pc' = [pc EXCEPT ![f] = "emitFinal"]
    /\ bLast' = BStep("stage", {})
    /\ UNCHANGED <<invoked, faults, emitted>>
    /\ HubUnchanged /\ OthersUnchanged

\* The pipeline hands the feedback_update of the stage it finished to the hub.
Emit(f, failing) ==
    /\ pc[f] \in Emitting
    /\ failing \subseteq registry
    /\ LET ev == Stamp(feedback_update(f, work[f]), published + 1)
           h == publish(Hub, ev, failing) IN
        /\ registry' = h.registry
        /\ inbox' = h.inbox
        /\ seen' = h.seen
        /\ published' = published + 1
        /\ emitted' = [emitted EXCEPT ![f] = ev.data]
        /\ bLast' = BStep("publish", failing)
    /\ subscribedAt' = [c \in Channels |-> IF c \in failing THEN 0 ELSE subscribedAt[c]]
    /\ pc' = [pc EXCEPT ![f] = afterEmit(@)]
    /\ UNCHANGED <<store, work, invoked, faults, heartbeats>>
    /\ OthersUnchanged

\* The hub's heartbeat round.
Heartbeat(failing) ==
    /\ heartbeats < MaxHeartbeats
    /\ failing \subseteq registry
    /\ LET h == publish(Hub, Stamp(heartbeat, published + 1), failing) IN
        /\ registry' = h.registry
        /\ inbox' = h.inbox
        /\ seen' = h.seen
    /\ published' = published + 1
    /\ heartbeats' = heartbeats + 1
    /\ subscribedAt' = [c \in Channels |-> IF c \in failing THEN 0 ELSE subscribedAt[c]]
    /\ bLast' = BStep("heartbeat", failing)
    /\ PipelinesUnchanged /\ OthersUnchanged

HubSubscribe(c) ==
    /\ c \notin registry
    /\ LET h == subscribe(Hub, c) IN
        /\ registry' = h.registry
        /\ inbox' = h.inbox
        /\ seen' = h.seen
    /\ subscribedAt' = [subscribedAt EXCEPT ![c] = published]
    /\ bLast' = BStep("subscribe", {})
    /\ UNCHANGED <<published, heartbeats>>
    /\ PipelinesUnchanged /\ OthersUnchanged

HubUnsubscribe(c) ==
    /\ c \in registry
    /\ LET h == unsubscribe(Hub, c) IN
        /\ registry' = h.registry
        /\ inbox' = h.inbox
        /\ seen' = h.seen
    /\ subscribedAt' = [subscribedAt EXCEPT ![c] = 0]
    /\ bLast' = BStep("unsubscribe", {})
    /\ UNCHANGED <<published, heartbeats>>
    /\ PipelinesUnchanged /\ OthersUnchanged

InitBackend ==
    /\ store = [f \in Submissions |-> NoRecord]
    /\ work = [f \in Submissions |-> NoRecord]
    /\ pc = [f \in Submissions |-> "new"]
    /\ invoked = [f \in Submissions |-> {}]
    /\ faults = [f \in Submissions |-> {}]
    /\ emitted = [f \in Submissions |-> NoRecord]
    /\ registry = {}
    /\ inbox = [c \in Channels |-> <<>>]
    /\ seen = [c \in Channels |-> Unseen]
    /\ published = 0
    /\ subscribedAt = [c \in Channels |-> 0]
    /\ heartbeats = 0
    /\ bLast = BStep("init", {})

BackendStep ==
    \/ \E f \in Submissions : SubmitFeedback(f)
    \/ \E f \in Submissions, ok \in BOOLEAN : SentimentStage(f, ok)
    \/ \E f \in Submissions, ok \in BOOLEAN : ResponseStage(f, ok)
    \/ \E f \in Submissions, ok \in BOOLEAN : SynthesisStage(f, ok)
    \/ \E f \in Submissions : MarkCompleted(f)
    \/ \E f \in Submissions, failing \in SUBSET Channels : Emit(f, failing)
    \/ \E failing \in SUBSET Channels : Heartbeat(failing)
    \/ \E c \in Channels : HubSubscribe(c)
    \/ \E c \in Channels : HubUnsubscribe(c)

(***************************************************************************)
(*                            Specifications                               *)
(***************************************************************************)

Init == InitAudio /\ InitSSE /\ InitFeed /\ InitBackend

NextAudio == AudioStep

NextSSE == SSEStep

NextFeed == FeedStep

NextBackend == BackendStep

SpecAudio == Init /\ [][NextAudio]_vars

SpecSSE == Init /\ [][NextSSE]_vars

\* Timers run: time passes and a callback that is due is called.
SpecSSELive == SpecSSE /\ WF_vars(TimePasses)

SpecFeed == Init /\ [][NextFeed]_vars

SpecBackend == Init /\ [][NextBackend]_vars

Next == NextAudio \/ NextSSE \/ NextFeed \/ NextBackend

Spec == Init /\ [][Next]_vars
(***************************************************************************)
(*                  Claims about the playback coordinator                  *)
(***************************************************************************)

Cached(x) == \E u \in Urls : audioPreloadCache[u] = x
Unpaused == {x \in Handles : handles[x].live /\ ~handles[x].paused}

\* C1: at most one audio element is not paused, whether it is the current one,
\* one held in the preload cache, or one the coordinator no longer references.
C1_AtMostOnePlaying == Cardinality(Unpaused) <= 1

\* C1 witness: an element plays while another element that was played before
\* sits paused in the cache.
C1_Witness ==
    \E x, y \in Handles :
        /\ x # y /\ Cached(x) /\ Cached(y)
        /\ x = currentAudio /\ ~handles[x].paused /\ handles[x].pend = {}
        /\ handles[y].on = "manager" /\ handles[y].paused

\* The await of a playAudio(B) that was called while A # B was playing has just
\* resolved.
C2_Case ==
    /\ aLast.op = "resolved" /\ "play" \in aLast.k
    /\ prevPlaying.id # NoId /\ prevPlaying.id # prevPlaying.req

\* C2: when playAudio(B) was called while A # B was playing and B's playback
\* starts, A's element is paused at position 0, B is the current resource,
\* isPlaying(B) holds, isPlaying(A) does not, and every subscriber's last
\* snapshot is {B, playing}.
C2_PlaySwitches ==
    C2_Case =>
        /\ handles[prevPlaying.h].paused /\ handles[prevPlaying.h].pos = 0
        /\ currentFeedbackId = prevPlaying.req
        /\ isPlaying(AS, prevPlaying.req)
        /\ ~isPlaying(AS, prevPlaying.id)
        /\ \A l \in listeners :
              lastSnap[l] = [feedbackId |-> prevPlaying.req, isPlaying |-> TRUE]

\* C2 witness: the case, with A's element still in the cache and a subscriber.
C2_Witness ==
    /\ C2_Case
    /\ handles[prevPlaying.h].live /\ Cached(prevPlaying.h)
    /\ listeners # {}

\* C9: after onended or onerror of an element ran, that element is not in the
\* preload cache and the current-resource state is cleared.
C9_TerminalEventEvicts ==
    aLast.op \in {"ended", "error"} =>
        /\ ~Cached(aLast.h)
        /\ currentAudio = 0 /\ currentFeedbackId = NoId
        /\ ~isCurrentlyPlaying(AS)

\* C10: when an operation or handler has run to its end (pauseAudio, stopAudio,
\* the continuation or catch of playAudio and resumeAudio, onended, onerror),
\* the last snapshot of every subscriber is the coordinator's current state.
C10_ListenersCurrent ==
    aLast.op \in Finishing =>
        \A l \in listeners : lastSnap[l] = getCurrentState(AS)

\* C22: when the play() promise of an element rejects and the await of its
\* playAudio runs its catch while another element has become the current one,
\* the current element, its paused flag, the current resource and the cache
\* are left as they were.
C22_RejectedStartLeavesCurrent ==
    [][\A x \in Handles :
        (/\ aLast'.op = "onpause" /\ aLast'.h = x /\ "play" \in aLast'.k
         /\ currentAudio \notin {0, x}) =>
            /\ currentAudio' = currentAudio
            /\ currentFeedbackId' = currentFeedbackId
            /\ handles'[currentAudio].paused = handles[currentAudio].paused
            /\ handles'[currentAudio].src = handles[currentAudio].src
            /\ audioPreloadCache' = audioPreloadCache]_vars

(***************************************************************************)
(*                      Claims about the SSE client                        *)
(***************************************************************************)

\* C6: the k-th of k error events in a row, with no contact with the server in
\* between, schedules the reconnect after min(1000 * 2^(k-1), 30000) ms.
C6_BackoffDoubles ==
    sLast.op = "error" => sLast.v = Min(1000 * Pow2(failures - 1), 30000)

\* C7: after onmessage handled a message that parsed, whatever its type, the
\* attempt counter is 0.
C7_MessageResetsAttempts == sLast.op = "message" => reconnectAttempts = 0

\* C7 witness: a message found a counter above 0 on a connection that is open.
C7_Witness == sLast.op = "message" /\ sLast.v > 0 /\ isConnected

\* The connection opened and nothing was received for longer than the threshold.
C8_Stale ==
    /\ eventSource = "open" /\ isConnected
    /\ watchdogTimerId # 0 /\ sinceLastEvent > StaleAfter

\* C8: once an open connection has been silent for longer than 60 s, then unless
\* a message or an error event arrives (or the application disconnects) a
\* reconnect timer set by the watchdog runs: the event source is closed and a
\* new one is created; and any message that is received restarts the silence.
C8_WatchdogReconnects ==
    /\ C8_Stale ~> (sLast.op \in {"reconnect", "message", "error", "disconnect"})
    /\ [](sLast.op = "reconnect" => eventSource = "connecting" /\ ~isConnected)
    /\ [](sLast.op = "message" => sinceLastEvent = 0)

\* C8 witness: the watchdog found the connection stale and the reconnect it
\* scheduled has replaced the event source.
C8_Witness == sLast.op = "reconnect" /\ sLast.v = 1 /\ eventSource = "connecting"

\* C12: getConnectionStatus() is true only while an event source exists that has
\* opened and has had no error event or disconnect since; it becomes true only
\* by the open event of an event source that was created and was connecting;
\* and from no event source the only way on is the creation of one.
C12_ConnectionStates ==
    /\ [](getConnectionStatus(SS) => eventSource = "open")
    /\ [][/\ (isConnected' /\ ~isConnected) =>
                (eventSource = "connecting" /\ eventSource' = "open")
          /\ eventSource = "none" => eventSource' \in {"none", "connecting"}
          /\ (eventSource # "open" /\ eventSource' = "open") =>
                eventSource = "connecting"]_vars

\* C12 witness: connected again after an error event, while the reconnect that
\* the error scheduled is still pending.
C12_Witness == isConnected /\ eventSource = "open" /\ reconnectTimers # {}

Calls(h) == Cardinality({k \in 1..Len(sLast.to) : sLast.to[k] = h})

\* C13: onmessage hands a message that parsed exactly once to every handler
\* registered at that moment, also when another handler throws, before the next
\* message is handled; a handler whose remove function was called gets no call.
C13_EveryHandlerOnce ==
    sLast.op = "message" =>
        /\ \A h \in eventHandlers : Calls(h) = 1
        /\ \A h \in Handlers \ eventHandlers : Calls(h) = 0
        /\ \A h \in removedHandlers : Calls(h) = 0

\* C13 witness: a message was handed to two handlers of which one threw.
C13_Witness ==
    /\ sLast.op = "message" /\ Len(sLast.to) = 2 /\ sLast.thr # {}


\* C23: after disconnect() returned, a reconnect timer that an error event or
\* the watchdog set before it and that runs next opens no event source and
\* leaves the connection status false.
C23_DisconnectCancelsReconnect ==
    [][(sLast.op = "disconnect" /\ sLast'.op = "reconnect") =>
          (eventSource' = "none" /\ ~isConnected')]_vars

\* C24: an error event or a stale detection of the watchdog that happens while a
\* reconnect is pending sets no second reconnect timer and leaves the attempt
\* counter as it was.
C24_OneReconnectPending ==
    [][(sLast'.op \in {"error", "stale"} /\ reconnectTimers # {}) =>
          (reconnectTimers' = reconnectTimers
           /\ reconnectAttempts' = reconnectAttempts)]_vars

\* C25: at most one event source is open and at most one watchdog interval
\* runs, the one event source being the one the service holds, and an interval
\* runs only while the service holds an event source.
C25_OneSourceOneWatchdog ==
    /\ liveSources <= 1
    /\ liveSources = 1 => eventSource \in {"connecting", "open"}
    /\ liveIntervals <= 1
    /\ liveIntervals = 1 => (watchdogTimerId # 0 /\ eventSource # "none")

\* C25 witness: a reconnect timer replaced an event source that was open with
\* its watchdog running: the old one is closed and its interval cleared.
C25_Witness ==
    /\ sLast.op = "reconnect" /\ sLast.v = 1
    /\ liveSources = 1 /\ liveIntervals = 0 /\ eventSource = "connecting"

\* C29: the handlers registered are the ones added and not removed since,
\* whatever disconnect(), connect() and reconnect timers ran, and a message is
\* handed to every handler that was registered when the connection was last
\* taken down and was not removed since.
C29_HandlersSurvive ==
    /\ eventHandlers = registered
    /\ sLast.op = "message" => \A h \in carried : Calls(h) = 1

\* C29 witness: a message of a new connection reached a handler that was
\* registered before the previous connection was taken down.
C29_Witness ==
    /\ sLast.op = "message" /\ carried # {}
    /\ \E h \in carried : Calls(h) = 1

(***************************************************************************)
(*                     Claims about the dashboard feed                     *)
(***************************************************************************)

Occurrences(feed, id) == Cardinality({k \in 1..Len(feed) : feed[k].id = id})

\* C3: no two entries of the feed have the same id, whatever the order of the
\* page-fetch responses and the merges of pushed feedback_update events.
C3_NoDuplicateIds == \A id \in AllIds : Occurrences(feedback, id) <= 1

\* C3 witness: a push was merged as a new first entry, and the response of a
\* page fetch that came afterwards holds the same id.
C3_Witness ==
    /\ fLast.op = "response"
    /\ \E id \in fLast.pre : Occurrences(feedback, id) = 1

\* C4: merging the same feedback_update a second time leaves the feed as the
\* first merge left it, and the id of the event is in the feed exactly once;
\* for the merge of useDashboard and for the merge of Dashboard.
C4_MergeIdempotent ==
    \A f \in Snapshots :
        /\ pushMerge(pushMerge(feedback, f), f) = pushMerge(feedback, f)
        /\ Occurrences(pushMerge(feedback, f), f.id) = 1
        /\ mergeRecent(mergeRecent(feedback, f), f) = mergeRecent(feedback, f)
        /\ Occurrences(mergeRecent(feedback, f), f.id) = 1

\* C4 witness: the effect has merged an event whose id was not in the feed, so
\* that the feed is the result of one merge of latestFeedback.
C4_Witness ==
    /\ fLast.op = "merge" /\ ~fLast.found
    /\ Len(feedback) > 1 /\ feedback[1] = latestFeedback

\* C5: once the effect has run, every entry of the feed is the snapshot of its
\* id that the client received last, by a page response or by a push.
C5_LatestSnapshotWins ==
    ~effectDue =>
        \A k \in 1..Len(feedback) : feedback[k].v = observed[feedback[k].id]

\* C11: after any sequence of page responses and push merges the feed holds at
\* most 5 entries: a feedback_update whose id is not in the feed goes to the
\* front and the feed is trimmed to the page size.
C11_FeedBounded == Len(feedback) <= 5

\* C14: once the effect has run, a feed that holds a processing item has a poll
\* of the current page scheduled or a page fetch under way, so that the re-fetch
\* repeats until no item is processing; and a poll is scheduled only while the
\* feed holds a processing item.
C14_PollWhileProcessing ==
    ~effectDue =>
        /\ hasProcessingItems(feedback) => (pollTimer # 0 \/ fetches # <<>>)
        /\ pollTimer # 0 => (hasProcessingItems(feedback) /\ pollTimer = currentPage)


\* The effect runs: after a push it is the only step that moves
\* prevRefreshTriggerRef.
EffectRuns == prevRefreshTriggerRef' # prevRefreshTriggerRef

\* C21: when a feedback_update was delivered whose id is in the feed, the
\* effect that merges it leaves the feed as it was but for the entry of that
\* id, which is the event's snapshot, at the position it had.
C21_ReplaceInPlace ==
    [][(fLast.op = "push" /\ EffectRuns /\ findIndex(feedback, latestFeedback.id) > 0) =>
        feedback' = [feedback EXCEPT ![findIndex(feedback, latestFeedback.id)] = latestFeedback]]_vars

\* C26: the response of a page fetch that arrives after the response of a fetch
\* requested later changes neither the feed nor the pagination info nor the
\* current page: these stay those of the fetch requested last.
C26_LastRequestWins ==
    [][(fLast'.op = "response" /\ fLast'.req.stale) =>
          (feedback' = feedback /\ pagination' = pagination
           /\ currentPage' = currentPage)]_vars

\* C27: the response of the reload that a pushed feedback_update triggered
\* leaves currentPage as it was.
C27_PushKeepsPage ==
    [][(fLast'.op = "response" /\ fLast'.req.push) =>
          currentPage' = currentPage]_vars

Terminal == {"completed", "failed"}

\* C15: a feedback is created with status processing; its stored status only
\* ever moves from processing to completed or failed and never changes once
\* it is completed or failed; the same holds of the statuses carried by the
\* feedback_update events emitted for it, one after the other.
C15_StatusMonotonic ==
    [][\A f \in Submissions :
        /\ store[f].status = "none" => store'[f].status \in {"none", "processing"}
        /\ store[f].status = "processing" => store'[f].status \in {"processing"} \cup Terminal
        /\ store[f].status \in Terminal => store'[f].status = store[f].status
        /\ emitted[f].status \in Terminal => emitted'[f].status = emitted[f].status
        /\ emitted'[f].status \in {"none", "processing"} \cup Terminal
        /\ emitted'[f].status = "none" => emitted[f].status = "none"]_vars

C15_Witness ==
    /\ store["f1"].status = "failed" /\ emitted["f1"].status = "failed" /\ pc["f1"] = "done"
    /\ store["f2"].status = "completed" /\ emitted["f2"].status = "completed"

\* C16: in a pipeline whose response generator failed, the status is failed, a
\* SentimentResult exists, no GeneratedResponse and no AudioArtifact exists,
\* the synthesizer is never called, nothing but the final event remains to be
\* done, and once the pipeline is over the last event emitted for the
\* feedback carries status failed.
C16_ResponseFailureIsTerminal ==
    \A f \in Submissions : "response" \in faults[f] =>
        /\ retrieve(f).status = "failed"
        /\ retrieve(f).sentiment # "none"
        /\ ~retrieve(f).response
        /\ ~retrieve(f).audio
        /\ "synthesis" \notin invoked[f]
        /\ pc[f] \in {"emitFinal", "done"}
        /\ pc[f] = "done" => emitted[f] = retrieve(f)

C16_Witness ==
    \E f \in Submissions :
        "response" \in faults[f] /\ pc[f] = "done" /\ emitted[f].status = "failed"

\* C17: in a pipeline whose synthesizer failed after the response generator
\* succeeded, a SentimentResult and a GeneratedResponse exist, no
\* AudioArtifact exists, the status is never failed and is completed once the
\* pipeline is over; and when the sentiment analyzer fails, the fallback's
\* SentimentResult is stored, the pipeline goes on to the response stage and
\* the status is failed only if the response generator failed.
C17_OptionalAndRecoverableFailures ==
    \A f \in Submissions :
        /\ ("synthesis" \in faults[f] /\ "response" \notin faults[f]) =>
            /\ retrieve(f).sentiment # "none"
            /\ retrieve(f).response
            /\ ~retrieve(f).audio
            /\ retrieve(f).status # "failed"
            /\ pc[f] = "done" => (retrieve(f).status = "completed" /\ emitted[f] = retrieve(f))
        /\ "sentiment" \in faults[f] =>
            /\ retrieve(f).sentiment = "fallback"
            /\ pc[f] \in {"emitSentiment", "response"} \/ "response" \in invoked[f]
            /\ retrieve(f).status = "failed" => "response" \in faults[f]

C17_Witness ==
    \E f \in Submissions :
        faults[f] = {"sentiment", "synthesis"} /\ pc[f] = "done" /\ retrieve(f).status = "completed"

\* What a snapshot shows (its sub-results, its final status) is in the record.
Covers(rec, snap) ==
    /\ snap.sentiment # "none" => rec.sentiment = snap.sentiment
    /\ snap.response => rec.response
    /\ snap.audio => rec.audio
    /\ snap.status \in Terminal => rec.status = snap.status

\* C18: the sub-results and the final status of every feedback_update a
\* subscriber received are returned by a retrieval of that feedback, at that
\* moment and, since the stored record never loses them, at any later one.
C18_PersistedBeforeEmitted ==
    /\ [](\A c \in Channels, f \in Submissions : Covers(retrieve(f), seen[c][f]))
    /\ [][\A f \in Submissions : Covers(store'[f], store[f])]_vars

C18_Witness ==
    /\ seen["c1"]["f1"].status = "completed" /\ seen["c1"]["f1"].audio
    /\ seen["c1"]["f2"].sentiment # "none" /\ pc["f2"] = "synthesis"

\* The last arrival on a channel is the event published last.
GotLast(c) == inbox[c] # <<>> /\ inbox[c][Len(inbox[c])].n = published

\* C19: after a publish or a heartbeat round, no channel whose delivery failed
\* in it is registered and every channel still registered has received the
\* round's event; and a round sends only to channels registered when it
\* starts, so a channel that was unregistered gets nothing until it
\* subscribes again.
C19_FailedChannelUnregistered ==
    /\ [](bLast.op \in {"publish", "heartbeat"} =>
            /\ bLast.failing \cap registry = {}
            /\ \A c \in registry : GotLast(c))
    /\ [][\A c \in Channels \ registry :
            inbox'[c] # inbox[c] => (c \in registry' /\ inbox'[c] = <<Arrival(connected)>>)]_vars

C19_Witness ==
    /\ bLast.op = "heartbeat" /\ bLast.failing = {"c1"}
    /\ registry = {"c2"} /\ GotLast("c2") /\ Len(inbox["c2"]) > 2

\* C20: what a registered channel has delivered is the connected event
\* followed by every event published since the channel subscribed, each
\* once and in publish order, and no event published before.
C20_ConnectedThenNoReplay ==
    \A c \in registry :
        /\ Len(inbox[c]) = 1 + published - subscribedAt[c]
        /\ inbox[c][1] = Arrival(connected)
        /\ \A k \in 2..Len(inbox[c]) :
            /\ inbox[c][k].kind \in {"heartbeat", "feedback_update"}
            /\ inbox[c][k].n = subscribedAt[c] + k - 1

C20_Witness ==
    /\ registry = {"c1", "c2"}
    /\ subscribedAt["c1"] = 1 /\ subscribedAt["c2"] = 3
    /\ Len(inbox["c2"]) = 3 /\ inbox["c2"][2].kind = "heartbeat"
====
